---- MODULE Spec2Model ----
(***************************************************************************)
(* GreenLink-Transportor: the order/container assignment workflow.         *)
(*                                                                         *)
(* The store is the Supabase (Postgres) database: the orders and the       *)
(* containers tables with the AFTER UPDATE trigger of the orders table.    *)
(* Every request the client sends is one statement, executed atomically by *)
(* the database (trigger included); a service function that awaits several *)
(* requests is several steps, and other callers' requests may run between  *)
(* them.  A request may also fail (network, row level security): the       *)
(* client then receives an error and the statement has changed nothing.    *)
(***************************************************************************)
EXTENDS Integers, FiniteSets, Sequences, TLC

(* ---------------------------- bounds ----------------------------------- *)

NumProcs == 2
NumOrders == 2
NumContainers == 1
NumUsers == 2
NumVehicles == 1
MaxCalls == 2
MaxSeqCalls == 3
MaxTime == 1
MaxBatch == 2
MaxBatchCalls == 2
MaxReceived == 101

(* --------------------------- identifiers -------------------------------- *)

\* SQL NULL and JavaScript null/undefined for a reference: ids are positive
\* (SERIAL), and every check of the code on an id (!id, id <= 0) treats 0 as
\* it treats null.
NULL == 0

Procs == 1..NumProcs
OrderIds == 1..NumOrders
ContainerIds == 1..NumContainers
UserIds == 1..NumUsers
VehicleIds == 1..NumVehicles

\* useSingleContainerTracking keeps the last 100 locations
TrailCapacity == 100

\* the hard-coded "sample" operator and vehicle of the order list page
SampleUserId == 96
SampleVehicleId == 1

\* an order id that is well formed and has no row
MissingOrderId == NumOrders + 1

OrderStatus ==
    {"pending", "confirmed", "processing", "shipped", "delivered", "completed", "cancelled"}

ActiveStatus == {"confirmed", "processing", "shipped", "delivered"}

VARIABLES
    orders,      \* orders table: id -> row
    containers,  \* containers table: id -> row
    pc,          \* per caller: position in the function it runs
    op,          \* per caller: the function it runs
    arg,         \* per caller: the arguments of the call
    cid,         \* per caller: orderData.container_id read by the first request
    ret,         \* per caller: updatedOrder, the row the order UPDATE returned
    result,      \* per caller: "ok" or the error the call threw
    pre,         \* history: order and container as they were when the call began
    written,     \* history: tables in which this call has changed a row
    conc,        \* history: callers whose call overlapped this call
    prev,        \* history: per caller, the call it made before this one, if it succeeded
    left,        \* number of calls that may still begin
    now,         \* the clock: new Date() of the clients and NOW() of the database
    tracking,    \* containers table, location columns: id -> row
    orderPos,    \* orders table, current_lat/current_lng: id -> position
    emitted,     \* location_update broadcasts sent on container-location-updates
    loc,         \* the location call that is running, or that ran last
    batch,       \* the updateMultipleContainerLocations call
    watch,       \* useOrderContainerManagement: the mounted hook's orderId, containerId
    channel,     \* per subscriber, the postgres_changes events not yet delivered to it
    received,    \* the events the callbacks of the mounted hook were called with, in order
    locationHistory,  \* useOrderContainerManagement: state.locationHistory
    tracked,     \* useSingleContainerTracking: containerId of the mounted hook
    trackingHistory,  \* useSingleContainerTracking: locationHistory
    realtime,    \* the channels of the shared supabase client (supabase.getChannels())
    dropdown,    \* NotificationDropdown: mounted, and where its subscription setup is
    data,        \* useSupabaseData: its table, where its fetch is, the rows it holds
    lastSent     \* per container, the position in the last location_update broadcast

callvars == <<orders, containers, pc, op, arg, cid, ret, result, pre, written, conc, prev, left>>

\* state of the clients that a request to the store does not change
clientvars ==
    <<now, emitted, loc, batch, watch, received, locationHistory, tracked, trackingHistory,
      realtime, dropdown, data, lastSent>>

vars == <<callvars, tracking, orderPos, channel, clientvars>>

(* ------------------------------ rows ------------------------------------ *)

NoOrder == [status |-> "none", container_id |-> NULL, transporter_id |-> NULL, vehicle_id |-> NULL]

NoArg == [order |-> NULL, user |-> NULL, vehicle |-> NULL, container |-> NULL, status |-> "none"]

NoPrev == [op |-> "none", order |-> NULL, result |-> "none"]

NoPre == [status |-> "none", transporter_id |-> NULL, assigned_to |-> NULL]

\* createOrder: a new order is pending, with no transporter and no vehicle
NewOrder(c) ==
    [status |-> "pending", container_id |-> c, transporter_id |-> NULL, vehicle_id |-> NULL]

\* createContainer: a new container is inactive and unassigned
NewContainer ==
    [assigned_to |-> NULL, vehicle_id |-> NULL, status |-> "inactive", complete_order |-> NULL]

\* a position is the pair <<latitude, longitude>> in whole degrees; the
\* columns of a position are null together
NoPosition == <<>>

\* createContainer: the location columns of a new container
NewTracking ==
    [current |-> NoPosition, last_updated |-> 0, static |-> NoPosition]

NoLoc ==
    [fn |-> "none", pc |-> "idle", container |-> NULL, order |-> NULL,
     pos |-> NoPosition, result |-> "none",
     before |-> NewTracking, sent |-> 0, repeats |-> FALSE, holders |-> {}]

NoCounts == [successful |-> 0, failed |-> 0, total |-> 0]

NoBatch ==
    [pc |-> "idle", updates |-> <<>>, promises |-> <<>>, applied |-> {}, refused |-> {},
     returned |-> NoCounts, result |-> "none"]

\* no hook is mounted; cancelled says that the cleanup of its effect has run
NoWatch == [mounted |-> FALSE, order |-> NULL, container |-> NULL, cancelled |-> FALSE]

\* the subscribers whose events are queued: useOrderContainerManagement and
\* useSupabaseData
Subscribers == {"hook", "data"}

\* nothing is in flight
NoInbox == [s \in Subscribers |-> <<>>]

\* NotificationDropdown before it is mounted
NoDropdown == [mounted |-> FALSE, setup |-> "none"]

\* useSupabaseData before it is mounted: useState([])
NoData == [table |-> "none", pc |-> "none", rows |-> <<>>]

(* --------------------------- the database ------------------------------- *)

\* the subscriptions of the mounted hook: UPDATE of orders with filter
\* id=eq.orderId, UPDATE of containers with filter id=eq.containerId
Subscribed(e) ==
    \/ /\ "hook.orders" \in realtime
       /\ e[1] = "orders" /\ watch.order # NULL /\ e[2] = watch.order
    \/ /\ "hook.containers" \in realtime
       /\ e[1] = "containers" /\ watch.container # NULL /\ e[2] = watch.container

\* the subscription of useSupabaseData: UPDATE of containers, whatever its table
DataSubscribed(e) == "data" \in realtime /\ e[1] = "containers"

\* the events realtime sends the hook carry their position in the order of
\* the commits (payload.commit_timestamp)
Stamp(events) ==
    [i \in DOMAIN events |->
        <<events[i][1], events[i][2], Len(channel.hook) + Len(received) + i>>]

\* the events realtime sends useSupabaseData carry the row as the statement
\* left it (payload.new)
WithRow(events) ==
    [i \in DOMAIN events |-> <<events[i][1], events[i][2], containers'[events[i][2]]>>]

\* a variant of Enqueue that puts the new events in front of those in flight
EnqueueInFront(queue, events) == events \o queue

\* realtime sends the events of a statement after those it sent before
Enqueue(queue, events) == queue \o events

\* postgres_changes: the events of a statement, in the order of its row
\* changes, go to every subscriber whose subscription they match
Publish(events) ==
    [hook |-> Enqueue(channel.hook, Stamp(SelectSeq(events, Subscribed))),
     data |-> Enqueue(channel.data, WithRow(SelectSeq(events, DataSubscribed)))]

\* a variant of handle_order_status_change that reads the vehicle of the row
\* before the UPDATE
handle_order_status_changeOld(id, old, new, cs) ==
    IF new.container_id \notin DOMAIN cs THEN cs
    ELSE IF new.status = "confirmed" /\ old.status # "confirmed" THEN
        [cs EXCEPT ![new.container_id] =
            [@ EXCEPT !.assigned_to = new.transporter_id,
                      !.vehicle_id = old.vehicle_id,
                      !.status = "active"]]
    ELSE IF new.status = "completed" /\ old.status # "completed" THEN
        [cs EXCEPT ![new.container_id] =
            [@ EXCEPT !.assigned_to = NULL,
                      !.vehicle_id = NULL,
                      !.status = "inactive",
                      !.complete_order = id]]
    ELSE cs

\* AFTER UPDATE trigger of orders: the containers table after the trigger ran
handle_order_status_change(id, old, new, cs) ==
    IF new.container_id \notin DOMAIN cs THEN cs
    ELSE IF new.status = "confirmed" /\ old.status # "confirmed" THEN
        [cs EXCEPT ![new.container_id] =
            [@ EXCEPT !.assigned_to = new.transporter_id,
                      !.vehicle_id = new.vehicle_id,
                      !.status = "active"]]
    ELSE IF new.status = "completed" /\ old.status # "completed" THEN
        [cs EXCEPT ![new.container_id] =
            [@ EXCEPT !.assigned_to = NULL,
                      !.vehicle_id = NULL,
                      !.status = "inactive",
                      !.complete_order = id]]
    ELSE cs

\* the trigger updates the container of the order when the status becomes
\* confirmed or becomes completed
TriggerFires(old, new) ==
    /\ new.container_id \in DOMAIN containers
    /\ \/ new.status = "confirmed" /\ old.status # "confirmed"
       \/ new.status = "completed" /\ old.status # "completed"

\* tables in which the statement UPDATE orders SET ... WHERE id = id updates a row
TablesOfOrderUpdate(id, new) ==
    {"orders"} \cup (IF TriggerFires(orders[id], new) THEN {"containers"} ELSE {})

(* -------------------------- update payloads ----------------------------- *)

\* a variant of TakeOrderPayload that leaves transporter_id out of the UPDATE
TakeOrderPayloadNoTransporter(row, userId, vehicleId) ==
    [row EXCEPT !.status = "confirmed", !.vehicle_id = vehicleId]

\* takeOrder: the fields of the order UPDATE
TakeOrderPayload(row, userId, vehicleId) ==
    [row EXCEPT !.status = "confirmed", !.vehicle_id = vehicleId, !.transporter_id = userId]

\* completeOrder: the fields of the order UPDATE
CompleteOrderPayload(row) ==
    [row EXCEPT !.status = "completed"]

\* updateOrderStatus: the fields of the order UPDATE
UpdateOrderStatusPayload(row, status, vehicleId) ==
    IF status = "confirmed" /\ vehicleId # NULL
    THEN [row EXCEPT !.status = status, !.vehicle_id = vehicleId]
    ELSE [row EXCEPT !.status = status]

\* a variant of AssignPayload with the two ids in each other's column
AssignPayloadSwapped(row, userId, vehicleId) ==
    [row EXCEPT !.assigned_to = vehicleId, !.vehicle_id = userId, !.status = "active"]

\* assignContainer: the fields of the container UPDATE
AssignPayload(row, userId, vehicleId) ==
    [row EXCEPT !.assigned_to = userId, !.vehicle_id = vehicleId, !.status = "active"]

\* a variant of UnassignPayload that writes the status of an assignment
UnassignPayloadStaysActive(row, orderId) ==
    [row EXCEPT !.assigned_to = NULL, !.vehicle_id = NULL,
                !.complete_order = orderId, !.status = "active"]

\* unassignContainer: the fields of the container UPDATE
UnassignPayload(row, orderId) ==
    [row EXCEPT !.assigned_to = NULL, !.vehicle_id = NULL,
                !.complete_order = orderId, !.status = "inactive"]

\* handleCompleteOrder of the pages: the fields of the container UPDATE
ReleasePayload(row) ==
    [row EXCEPT !.assigned_to = NULL, !.vehicle_id = NULL, !.status = "inactive"]

\* input validation of the service functions: a positive number
ValidId(n) == n # NULL /\ n > 0

(* ------------------------- history variables ---------------------------- *)

Running(q) == pc[q] \notin {"idle", "done"}

\* the state of the order and of its container when a call on order o begins
Snapshot(o) ==
    IF o \notin DOMAIN orders THEN NoPre
    ELSE [status |-> orders[o].status,
          transporter_id |-> orders[o].transporter_id,
          assigned_to |-> IF orders[o].container_id \in DOMAIN containers
                          THEN containers[orders[o].container_id].assigned_to
                          ELSE NULL]

\* caller p begins a call: it overlaps the calls that are running
ConcAtStart(p) ==
    [q \in Procs |->
        IF q = p THEN {r \in Procs \ {p} : Running(r)}
        ELSE IF Running(q) THEN conc[q] \cup {p}
        ELSE conc[q]]

(* ------------------------------ Init ------------------------------------ *)

\* createOrder requires a container_id: the orders are spread over the
\* containers, so that with more orders than containers two orders reference
\* the same container
ContainerOf(o) == ((o - 1) % NumContainers) + 1

Init ==
    /\ orders = [o \in OrderIds |-> NewOrder(ContainerOf(o))]
    /\ containers = [c \in ContainerIds |-> NewContainer]
    /\ pc = [p \in Procs |-> "idle"]
    /\ op = [p \in Procs |-> "none"]
    /\ arg = [p \in Procs |-> NoArg]
    /\ cid = [p \in Procs |-> NULL]
    /\ ret = [p \in Procs |-> NoOrder]
    /\ result = [p \in Procs |-> "none"]
    /\ pre = [p \in Procs |-> NoPre]
    /\ written = [p \in Procs |-> {}]
    /\ conc = [p \in Procs |-> {}]
    /\ prev = [p \in Procs |-> NoPrev]
    /\ left = MaxCalls
    /\ now = 0
    /\ tracking = [c \in ContainerIds |-> NewTracking]
    /\ orderPos = [o \in OrderIds |-> NoPosition]
    /\ emitted = 0
    /\ loc = NoLoc
    /\ batch = NoBatch
    /\ watch = NoWatch
    /\ channel = NoInbox
    /\ received = <<>>
    /\ locationHistory = <<>>
    /\ tracked = NULL
    /\ trackingHistory = <<>>
    /\ realtime = {}
    /\ dropdown = NoDropdown
    /\ data = NoData
    /\ lastSent = [c \in ContainerIds |-> NoPosition]

\* caller p begins the function f with arguments a
Begin(p, f, a) ==
    /\ pc[p] \in {"idle", "done"}
    /\ left > 0
    /\ left' = left - 1
    /\ prev' = [prev EXCEPT ![p] =
                   IF result[p] = "ok"
                   THEN [op |-> op[p], order |-> arg[p].order, result |-> "ok"]
                   ELSE NoPrev]
    /\ op' = [op EXCEPT ![p] = f]
    /\ arg' = [arg EXCEPT ![p] = a]
    /\ pre' = [pre EXCEPT ![p] = Snapshot(a.order)]
    /\ conc' = ConcAtStart(p)

\* the call of p ends with result r
Finish(p, r) ==
    /\ pc' = [pc EXCEPT ![p] = "done"]
    /\ result' = [result EXCEPT ![p] = r]

\* the call of p goes on at position l
Goto(p, l) ==
    /\ pc' = [pc EXCEPT ![p] = l]
    /\ result' = [result EXCEPT ![p] = "none"]

\* a step of p that changes no row
NoWrite(p, starting) ==
    /\ written' = [written EXCEPT ![p] = IF starting THEN {} ELSE @]
    /\ UNCHANGED <<orders, containers, tracking, orderPos, channel, clientvars>>

\* UPDATE orders SET <new> WHERE id = id, with the trigger, sent by p
WriteOrder(p, id, new, starting) ==
    /\ orders' = [orders EXCEPT ![id] = new]
    /\ containers' = handle_order_status_change(id, orders[id], new, containers)
    /\ tracking' = IF TriggerFires(orders[id], new)
                   THEN [tracking EXCEPT ![new.container_id].last_updated = now]
                   ELSE tracking
    /\ channel' = Publish(<< <<"orders", id>> >> \o
                          (IF TriggerFires(orders[id], new)
                           THEN << <<"containers", new.container_id>> >> ELSE <<>>))
    /\ written' = [written EXCEPT ![p] =
                      (IF starting THEN {} ELSE @) \cup TablesOfOrderUpdate(id, new)]
    /\ UNCHANGED <<orderPos, clientvars>>

\* UPDATE containers SET <new> WHERE id = c, sent by p; stamp says that the
\* payload carries last_updated: new Date()
WriteContainer(p, c, new, starting, stamp) ==
    /\ containers' = [containers EXCEPT ![c] = new]
    /\ tracking' = IF stamp THEN [tracking EXCEPT ![c].last_updated = now] ELSE tracking
    /\ channel' = Publish(<< <<"containers", c>> >>)
    /\ written' = [written EXCEPT ![p] = (IF starting THEN {} ELSE @) \cup {"containers"}]
    /\ UNCHANGED <<orders, orderPos, clientvars>>

(* ----------------------------- takeOrder -------------------------------- *)

\* takeOrder up to its first await: validation, then SELECT container_id
TakeOrderFetch(p, orderId, userId, vehicleId) ==
    /\ Begin(p, "takeOrder",
             [NoArg EXCEPT !.order = orderId, !.user = userId, !.vehicle = vehicleId])
    /\ NoWrite(p, TRUE)
    /\ ret' = [ret EXCEPT ![p] = NoOrder]
    /\ IF ~ValidId(orderId) \/ ~ValidId(userId) \/ ~ValidId(vehicleId)
       THEN Finish(p, "InvalidInput") /\ cid' = [cid EXCEPT ![p] = NULL]
       ELSE \E fail \in BOOLEAN :
            IF fail \/ orderId \notin DOMAIN orders
            THEN Finish(p, "FetchError") /\ cid' = [cid EXCEPT ![p] = NULL]
            ELSE IF orders[orderId].container_id = NULL
            THEN Finish(p, "NoContainer") /\ cid' = [cid EXCEPT ![p] = NULL]
            ELSE /\ cid' = [cid EXCEPT ![p] = orders[orderId].container_id]
                 /\ Goto(p, "take_update")

\* takeOrder: UPDATE orders SET status = confirmed, ... (the trigger runs with it)
TakeOrderUpdate(p) ==
    /\ pc[p] = "take_update"
    /\ UNCHANGED <<op, arg, cid, pre, conc, prev, left>>
    /\ \E fail \in BOOLEAN :
        IF fail \/ arg[p].order \notin DOMAIN orders
        THEN /\ Finish(p, "UpdateError")
             /\ NoWrite(p, FALSE)
             /\ UNCHANGED ret
        ELSE LET id == arg[p].order
                 new == TakeOrderPayload(orders[id], arg[p].user, arg[p].vehicle)
             IN /\ WriteOrder(p, id, new, FALSE)
                /\ ret' = [ret EXCEPT ![p] = new]
                /\ Goto(p, "take_assign")

\* assignContainer: validation, then UPDATE containers
AssignContainerCall(p, containerId, userId, vehicleId, starting) ==
    IF containerId = NULL \/ ~ValidId(userId) \/ ~ValidId(vehicleId)
    THEN Finish(p, "InvalidInput") /\ NoWrite(p, starting)
    ELSE \E fail \in BOOLEAN :
        IF fail \/ containerId \notin DOMAIN containers
        THEN Finish(p, "AssignError") /\ NoWrite(p, starting)
        ELSE /\ WriteContainer(p, containerId,
                               AssignPayload(containers[containerId], userId, vehicleId),
                               starting, TRUE)
             /\ Finish(p, "ok")

\* takeOrder: await assignContainer(orderData.container_id, currentUserId, vehicleId)
TakeOrderAssign(p) ==
    /\ pc[p] = "take_assign"
    /\ UNCHANGED <<op, arg, cid, ret, pre, conc, prev, left>>
    /\ AssignContainerCall(p, cid[p], arg[p].user, arg[p].vehicle, FALSE)

(* --------------------------- completeOrder ------------------------------ *)

\* completeOrder up to its first await: validation, then SELECT container_id
CompleteOrderFetch(p, orderId) ==
    /\ Begin(p, "completeOrder", [NoArg EXCEPT !.order = orderId])
    /\ NoWrite(p, TRUE)
    /\ ret' = [ret EXCEPT ![p] = NoOrder]
    /\ IF ~ValidId(orderId)
       THEN Finish(p, "InvalidInput") /\ cid' = [cid EXCEPT ![p] = NULL]
       ELSE \E fail \in BOOLEAN :
            IF fail \/ orderId \notin DOMAIN orders
            THEN Finish(p, "FetchError") /\ cid' = [cid EXCEPT ![p] = NULL]
            ELSE IF orders[orderId].container_id = NULL
            THEN Finish(p, "NoContainer") /\ cid' = [cid EXCEPT ![p] = NULL]
            ELSE /\ cid' = [cid EXCEPT ![p] = orders[orderId].container_id]
                 /\ Goto(p, "complete_update")

\* completeOrder: UPDATE orders SET status = completed, ... (the trigger runs with it)
CompleteOrderUpdate(p) ==
    /\ pc[p] = "complete_update"
    /\ UNCHANGED <<op, arg, cid, pre, conc, prev, left>>
    /\ \E fail \in BOOLEAN :
        IF fail \/ arg[p].order \notin DOMAIN orders
        THEN /\ Finish(p, "UpdateError")
             /\ NoWrite(p, FALSE)
             /\ UNCHANGED ret
        ELSE LET id == arg[p].order
                 new == CompleteOrderPayload(orders[id])
             IN /\ WriteOrder(p, id, new, FALSE)
                /\ ret' = [ret EXCEPT ![p] = new]
                /\ Goto(p, "complete_unassign")

\* unassignContainer: validation, then UPDATE containers
UnassignContainerCall(p, containerId, orderId, starting) ==
    IF containerId = NULL \/ ~ValidId(orderId)
    THEN Finish(p, "InvalidInput") /\ NoWrite(p, starting)
    ELSE \E fail \in BOOLEAN :
        IF fail \/ containerId \notin DOMAIN containers
        THEN Finish(p, "UnassignError") /\ NoWrite(p, starting)
        ELSE /\ WriteContainer(p, containerId,
                               UnassignPayload(containers[containerId], orderId),
                               starting, TRUE)
             /\ Finish(p, "ok")

\* completeOrder: await unassignContainer(orderData.container_id, orderId)
CompleteOrderUnassign(p) ==
    /\ pc[p] = "complete_unassign"
    /\ UNCHANGED <<op, arg, cid, ret, pre, conc, prev, left>>
    /\ UnassignContainerCall(p, cid[p], arg[p].order, FALSE)

(* ------------------- functions of a single statement -------------------- *)

\* updateOrderStatus(orderId, status, vehicleId): one UPDATE of the order
UpdateOrderStatus(p, orderId, status, vehicleId) ==
    /\ Begin(p, "updateOrderStatus",
             [NoArg EXCEPT !.order = orderId, !.status = status, !.vehicle = vehicleId])
    /\ cid' = [cid EXCEPT ![p] = NULL]
    /\ \E fail \in BOOLEAN :
        IF fail \/ orderId \notin DOMAIN orders
        THEN /\ Finish(p, "UpdateError")
             /\ NoWrite(p, TRUE)
             /\ ret' = [ret EXCEPT ![p] = NoOrder]
        ELSE LET new == UpdateOrderStatusPayload(orders[orderId], status, vehicleId)
             IN /\ WriteOrder(p, orderId, new, TRUE)
                /\ ret' = [ret EXCEPT ![p] = new]
                /\ Finish(p, "ok")

\* assignContainer called on its own
AssignContainer(p, containerId, userId, vehicleId) ==
    /\ Begin(p, "assignContainer",
             [NoArg EXCEPT !.container = containerId, !.user = userId, !.vehicle = vehicleId])
    /\ cid' = [cid EXCEPT ![p] = NULL]
    /\ ret' = [ret EXCEPT ![p] = NoOrder]
    /\ AssignContainerCall(p, containerId, userId, vehicleId, TRUE)

\* unassignContainer called on its own
UnassignContainer(p, containerId, orderId) ==
    /\ Begin(p, "unassignContainer",
             [NoArg EXCEPT !.container = containerId, !.order = orderId])
    /\ cid' = [cid EXCEPT ![p] = NULL]
    /\ ret' = [ret EXCEPT ![p] = NoOrder]
    /\ UnassignContainerCall(p, containerId, orderId, TRUE)

(* --------------------------- the pages ---------------------------------- *)

\* handleTakeOrder of the order list: UPDATE orders SET status = confirmed
HandleTakeOrder(p, orderId) ==
    /\ Begin(p, "handleTakeOrder", [NoArg EXCEPT !.order = orderId])
    /\ ret' = [ret EXCEPT ![p] = NoOrder]
    /\ \E fail \in BOOLEAN :
        IF fail
        THEN /\ Finish(p, "error")
             /\ NoWrite(p, TRUE)
             /\ cid' = [cid EXCEPT ![p] = NULL]
        ELSE /\ WriteOrder(p, orderId, [orders[orderId] EXCEPT !.status = "confirmed"], TRUE)
             /\ cid' = [cid EXCEPT ![p] = orders[orderId].container_id]
             /\ Goto(p, "page_assign")

\* handleTakeOrder: UPDATE containers SET assigned_to = 96, vehicle_id = 1, ...
HandleTakeOrderAssign(p) ==
    /\ pc[p] = "page_assign"
    /\ UNCHANGED <<op, arg, cid, ret, pre, conc, prev, left>>
    /\ \E fail \in BOOLEAN :
        IF fail
        THEN Finish(p, "error") /\ NoWrite(p, FALSE)
        ELSE IF cid[p] \notin DOMAIN containers
        THEN Finish(p, "ok") /\ NoWrite(p, FALSE)
        ELSE /\ WriteContainer(p, cid[p],
                    AssignPayload(containers[cid[p]], SampleUserId, SampleVehicleId),
                    FALSE, FALSE)
             /\ Finish(p, "ok")

\* handleConfirmAssignment of the containers page, by the signed-in user
HandleConfirmAssignment(p, containerId, userId, vehicleId) ==
    /\ Begin(p, "handleConfirmAssignment",
             [NoArg EXCEPT !.container = containerId, !.user = userId, !.vehicle = vehicleId])
    /\ cid' = [cid EXCEPT ![p] = NULL]
    /\ ret' = [ret EXCEPT ![p] = NoOrder]
    /\ \E fail \in BOOLEAN :
        IF fail
        THEN Finish(p, "error") /\ NoWrite(p, TRUE)
        ELSE /\ WriteContainer(p, containerId,
                    AssignPayload(containers[containerId], userId, vehicleId),
                    TRUE, FALSE)
             /\ Finish(p, "ok")

\* handleCompleteOrder of the order list: UPDATE orders SET status = completed
HandleCompleteOrder(p, orderId) ==
    /\ Begin(p, "handleCompleteOrder", [NoArg EXCEPT !.order = orderId])
    /\ ret' = [ret EXCEPT ![p] = NoOrder]
    /\ \E fail \in BOOLEAN :
        IF fail
        THEN /\ Finish(p, "error")
             /\ NoWrite(p, TRUE)
             /\ cid' = [cid EXCEPT ![p] = NULL]
        ELSE /\ WriteOrder(p, orderId, [orders[orderId] EXCEPT !.status = "completed"], TRUE)
             /\ cid' = [cid EXCEPT ![p] = orders[orderId].container_id]
             /\ Goto(p, "page_release")

\* handleCompleteOrder of the order list: UPDATE containers SET assigned_to = null, ...
HandleCompleteOrderRelease(p) ==
    /\ pc[p] = "page_release"
    /\ UNCHANGED <<op, arg, cid, ret, pre, conc, prev, left>>
    /\ \E fail \in BOOLEAN :
        IF fail
        THEN Finish(p, "error") /\ NoWrite(p, FALSE)
        ELSE IF cid[p] \notin DOMAIN containers
        THEN Finish(p, "ok") /\ NoWrite(p, FALSE)
        ELSE /\ WriteContainer(p, cid[p], ReleasePayload(containers[cid[p]]), FALSE, FALSE)
             /\ Finish(p, "ok")

\* handleCompleteOrder of the containers page: one UPDATE of the container
ContainerHandleCompleteOrder(p, containerId) ==
    /\ Begin(p, "containerHandleCompleteOrder", [NoArg EXCEPT !.container = containerId])
    /\ cid' = [cid EXCEPT ![p] = NULL]
    /\ ret' = [ret EXCEPT ![p] = NoOrder]
    /\ \E fail \in BOOLEAN :
        IF fail
        THEN Finish(p, "error") /\ NoWrite(p, TRUE)
        ELSE /\ WriteContainer(p, containerId, ReleasePayload(containers[containerId]), TRUE, FALSE)
             /\ Finish(p, "ok")

(* ------------------------- location reports ---------------------------- *)

\* current_lat is DECIMAL(10,8) and current_lng is DECIMAL(11,8): the database
\* refuses a value with more than two, respectively three, integer digits
FitsColumns(pos) == pos[1] \in -99..99 /\ pos[2] \in -999..999

\* UPDATE containers SET current_lat, current_lng, last_updated WHERE id = c
\* finds no row (.single() is then an error) or is refused by the database
LocationStatementFails(c, pos) == c \notin DOMAIN tracking \/ ~FitsColumns(pos)

\* updateContainerLocation: the fields of the container UPDATE
LocationPayload(row, pos) == [row EXCEPT !.current = pos, !.last_updated = now]

\* the state of the store and of the clients that a location call leaves alone
LocUnchanged == UNCHANGED <<orders, containers, pc, op, arg, cid, ret, result, pre, written,
                            conc, prev, batch, watch, received, locationHistory, tracked,
                            trackingHistory, now, realtime, dropdown, data>>

\* history: the orders that hold container c, which is assigned to their
\* transporter
Holders(c) ==
    {o \in DOMAIN orders :
        /\ c \in DOMAIN containers
        /\ orders[o].container_id = c
        /\ orders[o].status \in ActiveStatus
        /\ containers[c].assigned_to # NULL
        /\ orders[o].transporter_id = containers[c].assigned_to}

\* a location call begins: function f on container c, order o, position pos
LocBegin(f, c, o, pos, l, r) ==
    /\ loc.pc \in {"idle", "done"}
    /\ left > 0
    /\ left' = left - 1
    /\ loc' = [fn |-> f, pc |-> l, container |-> c, order |-> o, pos |-> pos, result |-> r,
               before |-> IF c \in DOMAIN tracking THEN tracking[c] ELSE NewTracking,
               sent |-> emitted,
               repeats |-> /\ loc.pc = "done" /\ loc.result = "ok"
                           /\ loc.fn = f /\ loc.container = c /\ loc.pos = pos,
               holders |-> Holders(c)]

\* updateContainerLocation(containerId, latitude, longitude) up to its first
\* await: UPDATE containers
UpdateContainerLocation(c, pos) ==
    /\ LocUnchanged
    /\ UNCHANGED <<orderPos, emitted, lastSent>>
    /\ \E fail \in BOOLEAN :
        IF fail \/ LocationStatementFails(c, pos)
        THEN /\ LocBegin("updateContainerLocation", c, NULL, pos, "done", "UpdateError")
             /\ UNCHANGED <<tracking, channel>>
        ELSE /\ LocBegin("updateContainerLocation", c, NULL, pos, "loc_send", "none")
             /\ tracking' = [tracking EXCEPT ![c] = LocationPayload(@, pos)]
             /\ channel' = Publish(<< <<"containers", c>> >>)

\* channel.send of updateContainerLocation: the location_update of container
\* c at position pos goes out, or it does not
Broadcast(c, pos) ==
    \E sent \in BOOLEAN :
        /\ emitted' = IF sent THEN emitted + 1 ELSE emitted
        /\ lastSent' = IF sent THEN [lastSent EXCEPT ![c] = pos] ELSE lastSent

\* updateContainerLocation: await channel.send(location_update); send resolves
\* with a status that the function does not read, whether or not the
\* broadcast went out
UpdateContainerLocationSend ==
    /\ loc.pc = "loc_send"
    /\ LocUnchanged
    /\ UNCHANGED <<tracking, orderPos, channel, left>>
    /\ Broadcast(loc.container, loc.pos)
    /\ loc' = [loc EXCEPT !.pc = "done", !.result = "ok"]

\* updateOrderLocation(orderId, latitude, longitude): one UPDATE of the order
UpdateOrderLocation(o, pos) ==
    /\ LocUnchanged
    /\ UNCHANGED <<tracking, emitted, lastSent>>
    /\ \E fail \in BOOLEAN :
        IF fail \/ o \notin DOMAIN orderPos \/ ~FitsColumns(pos)
        THEN /\ LocBegin("updateOrderLocation", NULL, o, pos, "done", "UpdateError")
             /\ UNCHANGED <<orderPos, channel>>
        ELSE /\ LocBegin("updateOrderLocation", NULL, o, pos, "done", "ok")
             /\ orderPos' = [orderPos EXCEPT ![o] = pos]
             /\ channel' = Publish(<< <<"orders", o>> >>)

\* TrackingMap.updateContainerLocation for the order o shown on the map, at the
\* device position pos: UPDATE containers SET latitude, longitude
TrackingMapUpdate(o, pos) ==
    /\ LocUnchanged
    /\ UNCHANGED <<orderPos, emitted, lastSent>>
    /\ \E fail \in BOOLEAN :
        IF fail
        THEN /\ LocBegin("TrackingMap.updateContainerLocation",
                         orders[o].container_id, o, pos, "done", "error")
             /\ UNCHANGED <<tracking, channel>>
        ELSE LET c == orders[o].container_id
             IN /\ LocBegin("TrackingMap.updateContainerLocation", c, o, pos, "map_order", "none")
                /\ IF c \in DOMAIN tracking
                   THEN /\ tracking' = [tracking EXCEPT ![c].static = pos]
                        /\ channel' = Publish(<< <<"containers", c>> >>)
                   ELSE UNCHANGED <<tracking, channel>>

\* TrackingMap.updateContainerLocation: UPDATE orders SET current_lat, current_lng
TrackingMapUpdateOrder ==
    /\ loc.pc = "map_order"
    /\ LocUnchanged
    /\ UNCHANGED <<tracking, emitted, lastSent, left>>
    /\ \E fail \in BOOLEAN :
        IF fail
        THEN /\ loc' = [loc EXCEPT !.pc = "done", !.result = "error"]
             /\ UNCHANGED <<orderPos, channel>>
        ELSE /\ loc' = [loc EXCEPT !.pc = "done", !.result = "ok"]
             /\ orderPos' = [orderPos EXCEPT ![loc.order] = loc.pos]
             /\ channel' = Publish(<< <<"orders", loc.order>> >>)

\* a variant of BatchCounts that counts the rejected promises as successful too
BatchCountsAllSuccessful(updates, promises) ==
    [successful |-> Len(promises),
     failed |-> Cardinality({i \in DOMAIN promises : promises[i] = "rejected"}),
     total |-> Len(updates)]

\* updateMultipleContainerLocations: the counts it returns, from the results
\* of Promise.allSettled
BatchCounts(updates, promises) ==
    [successful |-> Cardinality({i \in DOMAIN promises : promises[i] = "fulfilled"}),
     failed |-> Cardinality({i \in DOMAIN promises : promises[i] = "rejected"}),
     total |-> Len(updates)]

\* the state that a step of updateMultipleContainerLocations leaves alone
BatchUnchanged == UNCHANGED <<orders, containers, pc, op, arg, cid, ret, result, pre, written,
                              conc, prev, orderPos, loc, watch, received, locationHistory,
                              tracked, trackingHistory, now, realtime, dropdown, data>>

\* updateMultipleContainerLocations(updates): updates.map starts one
\* updateContainerLocation per sample, each of which sends its UPDATE
UpdateMultipleContainerLocations(updates) ==
    /\ batch.pc \in {"idle", "done"}
    /\ left > 0
    /\ left' = left - 1
    /\ batch' = [pc |-> "running", updates |-> updates,
                 promises |-> [i \in DOMAIN updates |-> "pending"],
                 applied |-> {}, refused |-> {}, returned |-> NoCounts, result |-> "none"]
    /\ BatchUnchanged
    /\ UNCHANGED <<tracking, channel, emitted, lastSent>>

\* a variant of BatchUpdate in which the call of a sample throws after its
\* UPDATE was applied
BatchUpdateThenThrow(i) ==
    /\ batch.pc = "running"
    /\ i \in DOMAIN batch.promises
    /\ batch.promises[i] = "pending"
    /\ BatchUnchanged
    /\ UNCHANGED <<emitted, lastSent, left>>
    /\ LET c == batch.updates[i][1]
           pos == batch.updates[i][2]
       IN \E fail \in BOOLEAN :
            IF LocationStatementFails(c, pos)
            THEN /\ batch' = [batch EXCEPT !.promises[i] = "rejected",
                                           !.refused = @ \cup {i}]
                 /\ UNCHANGED <<tracking, channel>>
            ELSE /\ batch' = IF fail
                             THEN [batch EXCEPT !.promises[i] = "rejected",
                                                !.refused = @ \cup {i}]
                             ELSE [batch EXCEPT !.promises[i] = "sending",
                                                !.applied = @ \cup {i}]
                 /\ tracking' = [tracking EXCEPT ![c] = LocationPayload(@, pos)]
                 /\ channel' = Publish(<< <<"containers", c>> >>)

\* the database executes the UPDATE of sample i; the requests of a batch are
\* in flight together and the database takes them in any order
BatchUpdate(i) ==
    /\ batch.pc = "running"
    /\ i \in DOMAIN batch.promises
    /\ batch.promises[i] = "pending"
    /\ BatchUnchanged
    /\ UNCHANGED <<emitted, lastSent, left>>
    /\ LET c == batch.updates[i][1]
           pos == batch.updates[i][2]
       IN \E fail \in BOOLEAN :
            IF fail \/ LocationStatementFails(c, pos)
            THEN /\ batch' = [batch EXCEPT !.promises[i] = "rejected",
                                           !.refused = @ \cup {i}]
                 /\ UNCHANGED <<tracking, channel>>
            ELSE /\ batch' = [batch EXCEPT !.promises[i] = "sending",
                                           !.applied = @ \cup {i}]
                 /\ tracking' = [tracking EXCEPT ![c] = LocationPayload(@, pos)]
                 /\ channel' = Publish(<< <<"containers", c>> >>)

\* the updateContainerLocation of sample i: await channel.send, then return
BatchSend(i) ==
    /\ batch.pc = "running"
    /\ i \in DOMAIN batch.promises
    /\ batch.promises[i] = "sending"
    /\ BatchUnchanged
    /\ UNCHANGED <<tracking, channel, left>>
    /\ Broadcast(batch.updates[i][1], batch.updates[i][2])
    /\ batch' = [batch EXCEPT !.promises[i] = "fulfilled"]

\* updateMultipleContainerLocations: Promise.allSettled has resolved; count
\* and return
BatchReturn ==
    /\ batch.pc = "running"
    /\ \A i \in DOMAIN batch.promises : batch.promises[i] \in {"fulfilled", "rejected"}
    /\ batch' = [batch EXCEPT !.pc = "done", !.result = "ok",
                              !.returned = BatchCounts(batch.updates, batch.promises)]
    /\ BatchUnchanged
    /\ UNCHANGED <<tracking, channel, emitted, lastSent, left>>

(* ----------------------------- the hooks -------------------------------- *)

\* the state that a step of a hook leaves alone
HookUnchanged == UNCHANGED <<callvars, tracking, orderPos, emitted, lastSent, loc, batch, now,
                             dropdown, data>>

\* useOrderContainerManagement, the effect: the channels it subscribes
Subscriptions(orderId, containerId) ==
    (IF orderId # NULL THEN {"hook.orders"} ELSE {})
        \cup (IF containerId # NULL THEN {"hook.containers"} ELSE {})
        \cup {"hook.location"}

\* useOrderContainerManagement({orderId, containerId}) is mounted: its effect
\* subscribes to the order if orderId is given, to the container if
\* containerId is given, and to the location broadcasts
MountHook(orderId, containerId) ==
    /\ ~watch.mounted
    /\ ~watch.cancelled
    /\ watch' = [mounted |-> TRUE, order |-> orderId, container |-> containerId,
                 cancelled |-> FALSE]
    /\ realtime' = realtime \cup Subscriptions(orderId, containerId)
    /\ HookUnchanged
    /\ UNCHANGED <<channel, received, locationHistory, tracked, trackingHistory>>

\* a variant of Removed that leaves the subscription to the location
\* broadcasts in place
RemovedButLocation == {"hook.orders", "hook.containers"}

\* useOrderContainerManagement, cleanup of the effect: every subscription the
\* effect pushed on newSubscriptions goes to removeChannel
Removed == {"hook.orders", "hook.containers", "hook.location"}

\* useOrderContainerManagement is unmounted: the cleanup of the effect removes
\* its channels, and with a channel what was in flight on it
CleanupHook ==
    /\ watch.mounted
    /\ watch' = [watch EXCEPT !.mounted = FALSE, !.cancelled = TRUE]
    /\ realtime' = realtime \ Removed
    /\ channel' = [channel EXCEPT !.hook = <<>>]
    /\ HookUnchanged
    /\ UNCHANGED <<received, locationHistory, tracked, trackingHistory>>

\* realtime delivers the hook the event it sent it first; the callback of
\* the subscription stores payload.new
Deliver ==
    /\ channel.hook # <<>>
    /\ channel' = [channel EXCEPT !.hook = Tail(@)]
    /\ received' = Append(received, Head(channel.hook))
    /\ HookUnchanged
    /\ UNCHANGED <<watch, locationHistory, tracked, trackingHistory, realtime>>

\* useOrderContainerManagement, callback of subscribeToLocationUpdates: the
\* update is appended to state.locationHistory
OnLocationUpdate(payload) ==
    /\ "hook.location" \in realtime
    /\ Len(locationHistory) < MaxReceived
    /\ locationHistory' = Append(locationHistory, payload)
    /\ HookUnchanged
    /\ UNCHANGED <<watch, channel, received, tracked, trackingHistory, realtime>>

\* handleUpdateLocation up to its await: the UPDATE of updateContainerLocation
HandleUpdateLocation(c, pos) ==
    /\ watch.mounted
    /\ LocUnchanged
    /\ UNCHANGED <<orderPos, emitted, lastSent>>
    /\ \E fail \in BOOLEAN :
        IF fail \/ LocationStatementFails(c, pos)
        THEN /\ LocBegin("handleUpdateLocation", c, NULL, pos, "done", "UpdateError")
             /\ UNCHANGED <<tracking, channel>>
        ELSE /\ LocBegin("handleUpdateLocation", c, NULL, pos, "hook_send", "none")
             /\ tracking' = [tracking EXCEPT ![c] = LocationPayload(@, pos)]
             /\ channel' = Publish(<< <<"containers", c>> >>)

\* handleUpdateLocation: updateContainerLocation sends the broadcast and
\* returns, then the update is added to state.locationHistory as the callback
\* captured it; the callback is memoized on [updateState] alone, so the state
\* it reads is the one of the first render, where locationHistory is empty
HandleUpdateLocationSend ==
    /\ loc.pc = "hook_send"
    /\ Broadcast(loc.container, loc.pos)
    /\ loc' = [loc EXCEPT !.pc = "done", !.result = "ok"]
    /\ locationHistory' =
          <<[container_id |-> loc.container, pos |-> loc.pos, timestamp |-> now]>>
    /\ UNCHANGED <<callvars, tracking, orderPos, channel, batch, now, watch, received,
                   tracked, trackingHistory, realtime, dropdown, data>>

\* useSingleContainerTracking(containerId) is mounted
TrackMount(containerId) ==
    /\ tracked = NULL
    /\ tracked' = containerId
    /\ realtime' = realtime \cup {"tracker"}
    /\ HookUnchanged
    /\ UNCHANGED <<watch, channel, received, locationHistory, trackingHistory>>

\* useSingleContainerTracking is unmounted: the cleanup of its effect removes
\* its channel, and its state goes with it
TrackCleanup ==
    /\ tracked # NULL
    /\ tracked' = NULL
    /\ trackingHistory' = <<>>
    /\ realtime' = realtime \ {"tracker"}
    /\ HookUnchanged
    /\ UNCHANGED <<watch, channel, received, locationHistory>>

\* the last n elements of s: s.slice(-n)
LastN(s, n) == IF Len(s) <= n THEN s ELSE SubSeq(s, Len(s) - n + 1, Len(s))

\* useSingleContainerTracking, callback of subscribeToContainerUpdates with
\* payload.new = [id, latitude, longitude]: a row of the tracked container
\* with a latitude and a longitude that are not null and not 0 is appended
OnContainerUpdate(id, static) ==
    /\ tracked # NULL
    /\ "tracker" \in realtime
    /\ trackingHistory' =
          IF id = tracked /\ static # NoPosition /\ static[1] # 0 /\ static[2] # 0
          THEN LastN(Append(trackingHistory,
                            [lat |-> static[1], lng |-> static[2], timestamp |-> now]),
                     TrailCapacity)
          ELSE trackingHistory
    /\ HookUnchanged
    /\ UNCHANGED <<watch, channel, received, locationHistory, tracked, realtime>>

\* time passes
Tick ==
    /\ now < MaxTime
    /\ now' = now + 1
    /\ UNCHANGED <<callvars, tracking, orderPos, channel, emitted, loc, batch, watch, received,
                   locationHistory, tracked, trackingHistory, realtime, dropdown, data,
                   lastSent>>

(* ------------------------ the other subscribers ------------------------- *)

\* the state that a step of NotificationDropdown or useSupabaseData leaves alone
SharedUnchanged == UNCHANGED <<callvars, tracking, orderPos, emitted, lastSent, loc, batch, now,
                               watch, received, locationHistory, tracked, trackingHistory>>

\* NotificationDropdown is mounted with a user: its effect starts
\* setupRealtimeSubscription, which first awaits the id of the user
DropdownMount ==
    /\ ~dropdown.mounted
    /\ dropdown.setup = "none"
    /\ dropdown' = [mounted |-> TRUE, setup |-> "pending"]
    /\ SharedUnchanged
    /\ UNCHANGED <<channel, realtime, data>>

\* setupRealtimeSubscription after its await: if the id of the user was
\* found, it subscribes to notifications-changes
DropdownSubscribe ==
    /\ dropdown.setup = "pending"
    /\ dropdown' = [dropdown EXCEPT !.setup = "done"]
    /\ \E found \in BOOLEAN :
          realtime' = IF found THEN realtime \cup {"notifications"} ELSE realtime
    /\ SharedUnchanged
    /\ UNCHANGED <<channel, data>>

\* NotificationDropdown, cleanup of the effect: supabase.removeAllChannels()
\* removes every channel of the client the services share, and with a
\* channel what was in flight on it
DropdownCleanup ==
    /\ dropdown.mounted
    /\ dropdown' = [dropdown EXCEPT !.mounted = FALSE]
    /\ realtime' = {}
    /\ channel' = NoInbox
    /\ SharedUnchanged
    /\ UNCHANGED data

\* the tables a page reads with useSupabaseData
DataTables == {"orders", "containers"}

\* supabase.from(table).select('*'): the rows of the table, by id
Select(table) == IF table = "orders" THEN orders ELSE containers

\* useSupabaseData({table}) is mounted: its effect subscribes with
\* subscribeToContainerUpdates and starts fetchData
DataMount(table) ==
    /\ data.pc = "none"
    /\ data' = [table |-> table, pc |-> "fetching", rows |-> <<>>]
    /\ realtime' = realtime \cup {"data"}
    /\ SharedUnchanged
    /\ UNCHANGED <<channel, dropdown>>

\* fetchData after its await: setData(data), or setError
DataFetched ==
    /\ data.pc = "fetching"
    /\ \E fail \in BOOLEAN :
          data' = [data EXCEPT !.pc = "ready",
                               !.rows = IF fail THEN @ ELSE Select(data.table)]
    /\ SharedUnchanged
    /\ UNCHANGED <<channel, realtime, dropdown>>

\* {...item, ...updated}: the fields of updated, and those of item that
\* updated does not have
Merge(item, updated) ==
    [f \in DOMAIN item \cup DOMAIN updated |->
        IF f \in DOMAIN updated THEN updated[f] ELSE item[f]]

\* useSupabaseData, callback of subscribeToContainerUpdates: payload.new is
\* merged into every held row with its id
DataOnContainerUpdate ==
    /\ data.pc \in {"fetching", "ready"}
    /\ channel.data # <<>>
    /\ channel' = [channel EXCEPT !.data = Tail(@)]
    /\ LET updated == Head(channel.data)
       IN data' = [data EXCEPT !.rows =
                      [id \in DOMAIN @ |->
                          IF id = updated[2] THEN Merge(@[id], updated[3]) ELSE @[id]]]
    /\ SharedUnchanged
    /\ UNCHANGED <<realtime, dropdown>>

\* useSupabaseData is unmounted: the cleanup of its effect removes its channel
DataCleanup ==
    /\ data.pc \in {"fetching", "ready"}
    /\ data' = [data EXCEPT !.pc = "unmounted"]
    /\ realtime' = realtime \ {"data"}
    /\ channel' = [channel EXCEPT !.data = <<>>]
    /\ SharedUnchanged
    /\ UNCHANGED dropdown

(* ------------------------- specifications ------------------------------- *)

\* the arguments the callers pass: every well-formed combination, an order id
\* without a row, and one malformed value (0) in each position
TakeOrderInputs ==
    (OrderIds \X UserIds \X VehicleIds)
        \cup {<<MissingOrderId, 1, 1>>, <<NULL, 1, 1>>, <<1, NULL, 1>>, <<1, 1, NULL>>}

\* vehicleId is optional, and read only when the new status is confirmed
UpdateOrderStatusInputs ==
    {<<o, s, v>> \in (OrderIds \cup {MissingOrderId}) \X OrderStatus \X (0..NumVehicles) :
        s # "confirmed" => v = NULL}

Step(p) ==
    \/ \E i \in TakeOrderInputs : TakeOrderFetch(p, i[1], i[2], i[3])
    \/ TakeOrderUpdate(p)
    \/ TakeOrderAssign(p)
    \/ \E o \in 0..MissingOrderId : CompleteOrderFetch(p, o)
    \/ CompleteOrderUpdate(p)
    \/ CompleteOrderUnassign(p)
    \/ \E i \in UpdateOrderStatusInputs : UpdateOrderStatus(p, i[1], i[2], i[3])
    \/ \E c \in 0..NumContainers, u \in UserIds, v \in VehicleIds :
          AssignContainer(p, c, u, v)
    \/ \E c \in ContainerIds, o \in 0..NumOrders : UnassignContainer(p, c, o)
    \/ \E o \in OrderIds : HandleTakeOrder(p, o)
    \/ HandleTakeOrderAssign(p)
    \/ \E c \in ContainerIds, u \in UserIds, v \in VehicleIds :
          HandleConfirmAssignment(p, c, u, v)
    \/ \E o \in OrderIds : HandleCompleteOrder(p, o)
    \/ HandleCompleteOrderRelease(p)
    \/ \E c \in ContainerIds : ContainerHandleCompleteOrder(p, c)

\* any number of callers, their requests interleaved by the database
Next == \E p \in Procs : Step(p)

Spec == Init /\ [][Next]_vars

\* one caller, each call awaited before the next begins
InitSeq ==
    /\ orders = [o \in OrderIds |-> NewOrder(ContainerOf(o))]
    /\ containers = [c \in ContainerIds |-> NewContainer]
    /\ pc = [p \in Procs |-> "idle"]
    /\ op = [p \in Procs |-> "none"]
    /\ arg = [p \in Procs |-> NoArg]
    /\ cid = [p \in Procs |-> NULL]
    /\ ret = [p \in Procs |-> NoOrder]
    /\ result = [p \in Procs |-> "none"]
    /\ pre = [p \in Procs |-> NoPre]
    /\ written = [p \in Procs |-> {}]
    /\ conc = [p \in Procs |-> {}]
    /\ prev = [p \in Procs |-> NoPrev]
    /\ left = MaxSeqCalls
    /\ now = 0
    /\ tracking = [c \in ContainerIds |-> NewTracking]
    /\ orderPos = [o \in OrderIds |-> NoPosition]
    /\ emitted = 0
    /\ loc = NoLoc
    /\ batch = NoBatch
    /\ watch = NoWatch
    /\ channel = NoInbox
    /\ received = <<>>
    /\ locationHistory = <<>>
    /\ tracked = NULL
    /\ trackingHistory = <<>>
    /\ realtime = {}
    /\ dropdown = NoDropdown
    /\ data = NoData
    /\ lastSent = [c \in ContainerIds |-> NoPosition]

NextSeq == Step(CHOOSE p \in Procs : TRUE)

SpecSeq == InitSeq /\ [][NextSeq]_vars

\* one caller that takes and completes orders, each call awaited before the
\* next begins
Flow(p) ==
    \/ \E i \in TakeOrderInputs : TakeOrderFetch(p, i[1], i[2], i[3])
    \/ TakeOrderUpdate(p)
    \/ TakeOrderAssign(p)
    \/ \E o \in 0..MissingOrderId : CompleteOrderFetch(p, o)
    \/ CompleteOrderUpdate(p)
    \/ CompleteOrderUnassign(p)

NextFlow == Flow(CHOOSE p \in Procs : TRUE)

SpecFlow == InitSeq /\ [][NextFlow]_vars

\* a container id that is well formed and has no row
MissingContainerId == NumContainers + 1

\* the positions that are reported, in whole degrees: in Sri Lanka, north of
\* the pole, east of the date line, and one that the latitude column cannot hold
Positions == {<<7, 80>>, <<91, 80>>, <<7, 181>>, <<100, 80>>}

\* the position the geolocation of the device returns
DevicePositions == {<<6, 79>>}

\* no call is running
Quiet == loc.pc \in {"idle", "done"} /\ \A q \in Procs : ~Running(q)

\* an operator who takes orders and reports positions, each call awaited
\* before the next begins, while time passes
Report(p) ==
    \/ Quiet /\ \E i \in TakeOrderInputs : TakeOrderFetch(p, i[1], i[2], i[3])
    \/ TakeOrderUpdate(p)
    \/ TakeOrderAssign(p)
    \/ Quiet /\ \E c \in ContainerIds \cup {MissingContainerId}, pos \in Positions :
                  UpdateContainerLocation(c, pos)
    \/ UpdateContainerLocationSend
    \/ Quiet /\ \E o \in OrderIds \cup {MissingOrderId}, pos \in Positions :
                  UpdateOrderLocation(o, pos)
    \/ Quiet /\ \E o \in OrderIds, pos \in DevicePositions : TrackingMapUpdate(o, pos)
    \/ TrackingMapUpdateOrder
    \/ Tick

NextLoc == Report(CHOOSE p \in Procs : TRUE)

SpecLoc == InitSeq /\ [][NextLoc]_vars

\* the samples of a batch: a position the columns hold or one they do not,
\* for a container that exists or one that does not
BatchSamples == (ContainerIds \cup {MissingContainerId}) \X {<<7, 80>>, <<100, 80>>}

BatchInputs == UNION {[1..k -> BatchSamples] : k \in 0..MaxBatch}

\* a tracker that sends batches of samples, one batch at a time
InitBatch ==
    /\ orders = [o \in OrderIds |-> NewOrder(ContainerOf(o))]
    /\ containers = [c \in ContainerIds |-> NewContainer]
    /\ pc = [p \in Procs |-> "idle"]
    /\ op = [p \in Procs |-> "none"]
    /\ arg = [p \in Procs |-> NoArg]
    /\ cid = [p \in Procs |-> NULL]
    /\ ret = [p \in Procs |-> NoOrder]
    /\ result = [p \in Procs |-> "none"]
    /\ pre = [p \in Procs |-> NoPre]
    /\ written = [p \in Procs |-> {}]
    /\ conc = [p \in Procs |-> {}]
    /\ prev = [p \in Procs |-> NoPrev]
    /\ left = MaxBatchCalls
    /\ now = 0
    /\ tracking = [c \in ContainerIds |-> NewTracking]
    /\ orderPos = [o \in OrderIds |-> NoPosition]
    /\ emitted = 0
    /\ loc = NoLoc
    /\ batch = NoBatch
    /\ watch = NoWatch
    /\ channel = NoInbox
    /\ received = <<>>
    /\ locationHistory = <<>>
    /\ tracked = NULL
    /\ trackingHistory = <<>>
    /\ realtime = {}
    /\ dropdown = NoDropdown
    /\ data = NoData
    /\ lastSent = [c \in ContainerIds |-> NoPosition]

NextBatch ==
    \/ \E updates \in BatchInputs : UpdateMultipleContainerLocations(updates)
    \/ \E i \in 1..MaxBatch : BatchUpdate(i)
    \/ \E i \in 1..MaxBatch : BatchSend(i)
    \/ BatchReturn

SpecBatch == InitBatch /\ [][NextBatch]_vars

\* the samples of two trackers of the same container that lie a degree apart
RaceSamples == ContainerIds \X {<<7, 80>>, <<8, 81>>}

RaceInputs == UNION {[1..k -> RaceSamples] : k \in 0..MaxBatch}

\* a client that reports samples of the same container in one batch, whose
\* updateContainerLocation calls run concurrently
NextRace ==
    \/ \E updates \in RaceInputs : UpdateMultipleContainerLocations(updates)
    \/ \E i \in 1..MaxBatch : BatchUpdate(i)
    \/ \E i \in 1..MaxBatch : BatchSend(i)
    \/ BatchReturn

SpecRace == InitBatch /\ [][NextRace]_vars

\* the location_update broadcasts the hook receives
TrailPayloads == {[container_id |-> 1, pos |-> <<7, 80>>, timestamp |-> now]}

\* the static positions in the rows the container subscription delivers
StaticPositions == {NoPosition, <<7, 80>>, <<0, 80>>}

\* a page that mounts one of the two hooks, which then receives updates
NextTrail ==
    \/ /\ tracked = NULL
       /\ \E o \in 0..NumOrders, c \in 0..MissingContainerId : MountHook(o, c)
    \/ \E payload \in TrailPayloads : OnLocationUpdate(payload)
    \/ \E c \in ContainerIds \cup {MissingContainerId} : HandleUpdateLocation(c, <<7, 80>>)
    \/ HandleUpdateLocationSend
    \/ /\ ~watch.mounted
       /\ \E c \in ContainerIds : TrackMount(c)
    \/ \E c \in ContainerIds \cup {MissingContainerId}, static \in StaticPositions :
          OnContainerUpdate(c, static)

SpecTrail == InitSeq /\ [][NextTrail]_vars

\* an operator who takes and completes orders while a mounted hook watches;
\* a call that is awaited goes on, and realtime delivers what it holds
Watched(p) ==
    \/ \E o \in 0..NumOrders, c \in 0..NumContainers : MountHook(o, c)
    \/ Deliver
    \/ Flow(p)

NextWatch == Watched(CHOOSE p \in Procs : TRUE)

Delivery == Deliver

SpecWatch ==
    /\ InitSeq
    /\ [][NextWatch]_vars
    /\ WF_vars(Delivery)
    /\ \A p \in Procs :
          /\ WF_vars(TakeOrderUpdate(p))
          /\ WF_vars(TakeOrderAssign(p))
          /\ WF_vars(CompleteOrderUpdate(p))
          /\ WF_vars(CompleteOrderUnassign(p))

\* the location broadcasts of other clients that reach a page while it is
\* watched
MaxFeedUpdates == 2

\* the service calls that assign a container to the first user and vehicle
\* and release it from the first order, each awaited before the next begins
Writer(p) ==
    \/ \E c \in ContainerIds : AssignContainer(p, c, 1, 1)
    \/ \E c \in ContainerIds : UnassignContainer(p, c, 1)

\* a page that mounts and unmounts useOrderContainerManagement while
\* containers are written and location broadcasts come in
Feed(p) ==
    \/ \E o \in {NULL, 1}, c \in 0..NumContainers : MountHook(o, c)
    \/ CleanupHook
    \/ Deliver
    \/ /\ Len(locationHistory) < MaxFeedUpdates
       /\ \E payload \in TrailPayloads : OnLocationUpdate(payload)
    \/ Writer(p)

NextFeed == Feed(CHOOSE p \in Procs : TRUE)

SpecFeed == InitSeq /\ [][NextFeed]_vars

\* the same page with useSingleContainerTracking and with the
\* NotificationDropdown in its header
Shared(p) ==
    \/ Feed(p)
    \/ \E c \in ContainerIds : TrackMount(c)
    \/ /\ Len(trackingHistory) < MaxFeedUpdates
       /\ \E c \in ContainerIds, static \in StaticPositions : OnContainerUpdate(c, static)
    \/ TrackCleanup
    \/ DropdownMount
    \/ DropdownSubscribe
    \/ DropdownCleanup

NextShared == Shared(CHOOSE p \in Procs : TRUE)

SpecShared == InitSeq /\ [][NextShared]_vars

\* a page that lists a table with useSupabaseData while containers are
\* written
Listing(p) ==
    \/ \E table \in DataTables : DataMount(table)
    \/ DataFetched
    \/ DataOnContainerUpdate
    \/ DataCleanup
    \/ Writer(p)

NextData == Listing(CHOOSE p \in Procs : TRUE)

SpecData == InitSeq /\ [][NextData]_vars

\* an operator who sets the status of orders with updateOrderStatus, each call
\* awaited before the next begins
NextStatus ==
    \E i \in UpdateOrderStatusInputs :
        UpdateOrderStatus(CHOOSE p \in Procs : TRUE, i[1], i[2], i[3])

SpecStatus == InitSeq /\ [][NextStatus]_vars

(* ------------------------------ claims ---------------------------------- *)

Done(p, f) == pc[p] = "done" /\ op[p] = f

\* results of a call that say the store did not carry out a request
StoreErrors == {"FetchError", "UpdateError", "AssignError", "UnassignError", "error"}

\* the order was pending and its container unassigned when the call of p began
TookPendingUnassigned(p) == pre[p].status = "pending" /\ pre[p].assigned_to = NULL

\* C1: of two takeOrder calls that overlap, each begun on a pending order whose
\* container was unassigned, both on the same container, and neither refused by
\* the store, exactly one returns success and the other fails with Conflict.
C1_ExactlyOneTakeOrderWins ==
    \A p \in Procs, q \in Procs :
        ( /\ p # q
          /\ Done(p, "takeOrder") /\ Done(q, "takeOrder")
          /\ q \in conc[p]
          /\ TookPendingUnassigned(p) /\ TookPendingUnassigned(q)
          /\ cid[p] # NULL /\ cid[p] = cid[q]
          /\ result[p] \notin StoreErrors /\ result[q] \notin StoreErrors )
        => \/ result[p] = "ok" /\ result[q] = "Conflict"
           \/ result[q] = "ok" /\ result[p] = "Conflict"

\* C2: in every state of the store every container has assigned_to = null
\* exactly when it has vehicle_id = null.
C2_NoPartialAssignment ==
    \A c \in ContainerIds :
        (containers[c].assigned_to = NULL) <=> (containers[c].vehicle_id = NULL)

\* C3: in every state, the container of every order that is confirmed,
\* processing, shipped or delivered is assigned to that order's transporter.
C3_ActiveOrderHoldsContainer ==
    \A o \in OrderIds :
        orders[o].status \in ActiveStatus
        => /\ orders[o].container_id \in ContainerIds
           /\ containers[orders[o].container_id].assigned_to = orders[o].transporter_id

\* C4: takeOrder and completeOrder are all-or-nothing: a call that has failed
\* has updated no row, and no call has updated the order row without the
\* container row.
C4_AllOrNothing ==
    \A p \in Procs :
        op[p] \in {"takeOrder", "completeOrder"}
        => /\ (pc[p] = "done" /\ result[p] # "ok") => written[p] = {}
           /\ written[p] # {"orders"}

\* C5: in every state, every assigned container is the container of exactly one
\* order that is confirmed, processing, shipped or delivered.
C5_AssignedContainerHasOneActiveOrder ==
    \A c \in ContainerIds :
        containers[c].assigned_to # NULL
        => Cardinality({o \in OrderIds :
                           orders[o].container_id = c /\ orders[o].status \in ActiveStatus}) = 1

\* C6: a takeOrder(orderId, operatorId, vehicleId) that succeeds on a pending
\* order whose container is unassigned leaves the order confirmed with that
\* transporter and vehicle, its container assigned to that operator and
\* vehicle with status active, and returns the updated order.
C6_TakeOrderEffect ==
    \A p \in Procs :
        (Done(p, "takeOrder") /\ result[p] = "ok" /\ TookPendingUnassigned(p))
        => /\ orders[arg[p].order] =
                 [status |-> "confirmed", container_id |-> cid[p],
                  transporter_id |-> arg[p].user, vehicle_id |-> arg[p].vehicle]
           /\ containers[cid[p]].assigned_to = arg[p].user
           /\ containers[cid[p]].vehicle_id = arg[p].vehicle
           /\ containers[cid[p]].status = "active"
           /\ ret[p] = orders[arg[p].order]

\* C6, its case: a takeOrder on a pending order with an unassigned container
\* has succeeded.
C6_Witness ==
    \E p \in Procs :
        /\ Done(p, "takeOrder") /\ result[p] = "ok" /\ TookPendingUnassigned(p)
        /\ orders[arg[p].order].status = "confirmed"

\* the call p made before this one was a successful f on the same order
After(p, f) ==
    prev[p] = [op |-> f, order |-> arg[p].order, result |-> "ok"]

\* C7: takeOrder(o, ...) followed by completeOrder(o), both successful, leaves
\* the order completed and its container with assigned_to = null,
\* vehicle_id = null, status = inactive and complete_order = o.
C7_RoundTrip ==
    \A p \in Procs :
        (Done(p, "completeOrder") /\ result[p] = "ok" /\ After(p, "takeOrder"))
        => /\ orders[arg[p].order].status = "completed"
           /\ containers[cid[p]] =
                 [assigned_to |-> NULL, vehicle_id |-> NULL, status |-> "inactive",
                  complete_order |-> arg[p].order]

\* C7, its case: a completeOrder has succeeded right after a successful
\* takeOrder of the same order.
C7_Witness ==
    \E p \in Procs :
        /\ Done(p, "completeOrder") /\ result[p] = "ok" /\ After(p, "takeOrder")
        /\ containers[cid[p]].complete_order = arg[p].order

\* C8: a takeOrder on an order that is not pending, which the store did not
\* refuse, fails with InvalidState and updates no row.
C8_TakeOrderRejectsNonPending ==
    \A p \in Procs :
        ( /\ Done(p, "takeOrder") /\ conc[p] = {}
          /\ pre[p].status \notin {"none", "pending"}
          /\ result[p] \notin StoreErrors \cup {"InvalidInput"} )
        => result[p] = "InvalidState" /\ written[p] = {}

\* C9: a completeOrder on an order that is already completed or cancelled, or
\* whose container is not assigned to the order's transporter, which the store
\* did not refuse, fails with InvalidState and updates no row.
C9_CompleteOrderGuard ==
    \A p \in Procs :
        ( /\ Done(p, "completeOrder") /\ conc[p] = {}
          /\ pre[p].status # "none"
          /\ \/ pre[p].status \in {"completed", "cancelled"}
             \/ pre[p].assigned_to # pre[p].transporter_id
          /\ result[p] \notin StoreErrors \cup {"InvalidInput"} )
        => result[p] = "InvalidState" /\ written[p] = {}

\* a takeOrder by caller p for a well-formed operator and vehicle on a pending
\* order, begun right after a successful completeOrder of another order on the
\* same container that another operator had taken
TakeAfterComplete(p) ==
    /\ Done(p, "takeOrder")
    /\ ValidId(arg[p].user) /\ ValidId(arg[p].vehicle)
    /\ pre[p].status = "pending"
    /\ prev[p].op = "completeOrder" /\ prev[p].result = "ok"
    /\ prev[p].order \in OrderIds \ {arg[p].order}
    /\ orders[prev[p].order].container_id = orders[arg[p].order].container_id
    /\ orders[prev[p].order].transporter_id \notin {NULL, arg[p].user}

\* C10: after completeOrder has committed for an order on container c, a
\* takeOrder by a different operator on another pending order that references
\* c is rejected by nothing but the store failing to carry out a request, and
\* when it succeeds c is assigned to that operator and vehicle.
C10_NoResidualLock ==
    \A p \in Procs :
        TakeAfterComplete(p)
        => /\ result[p] \in {"ok"} \cup StoreErrors
           /\ result[p] = "ok" =>
                /\ containers[cid[p]].assigned_to = arg[p].user
                /\ containers[cid[p]].vehicle_id = arg[p].vehicle
                /\ containers[cid[p]].status = "active"
                /\ orders[arg[p].order].status = "confirmed"

\* C10, its case: such a takeOrder has succeeded.
C10_Witness ==
    \E p \in Procs :
        /\ TakeAfterComplete(p) /\ result[p] = "ok"
        /\ containers[cid[p]].complete_order = prev[p].order

\* position of a status in the fixed ordering of the order life cycle
Rank(s) ==
    CASE s = "pending" -> 1
      [] s = "confirmed" -> 2
      [] s = "processing" -> 3
      [] s = "shipped" -> 4
      [] s = "delivered" -> 5
      [] s = "completed" -> 6
      [] OTHER -> 0

\* a status change the life cycle allows: forward along the ordering, or to
\* cancelled, and never out of completed or cancelled
Forward(a, b) ==
    /\ a \notin {"completed", "cancelled"}
    /\ b = "cancelled" \/ Rank(b) > Rank(a)

\* C11: every step of a takeOrder, completeOrder or updateOrderStatus call that
\* changes the status of an order moves it forward along pending, confirmed,
\* processing, shipped, delivered, completed, or to cancelled from a status
\* that is not terminal; a completed or cancelled order keeps its status.
C11_StatusForwardOnly ==
    [][\A p \in Procs, o \in OrderIds :
          ( /\ op'[p] \in {"takeOrder", "completeOrder", "updateOrderStatus"}
            /\ pc'[p] # pc[p] \/ op'[p] # op[p] \/ arg'[p] # arg[p]
            /\ orders'[o].status # orders[o].status )
          => Forward(orders[o].status, orders'[o].status)]_vars

\* C12: in every state an order has a vehicle and a transporter exactly when
\* its status is confirmed, processing, shipped or delivered; both are null in
\* pending, completed and cancelled.
C12_AssignmentFieldsFollowStatus ==
    \A o \in OrderIds :
        IF orders[o].status \in ActiveStatus
        THEN orders[o].vehicle_id # NULL /\ orders[o].transporter_id # NULL
        ELSE orders[o].vehicle_id = NULL /\ orders[o].transporter_id = NULL

\* C13: updateOrderStatus(o, cancelled) that succeeds on an order whose
\* container is assigned to it leaves the order cancelled and the container
\* released (assigned_to = null, vehicle_id = null, status = inactive); on a
\* pending order it leaves the assignment of the container as it was.
C13_CancelReleasesContainer ==
    \A p \in Procs :
        ( /\ Done(p, "updateOrderStatus") /\ arg[p].status = "cancelled"
          /\ result[p] = "ok" /\ conc[p] = {}
          /\ orders[arg[p].order].container_id \in ContainerIds )
        => LET c == containers[orders[arg[p].order].container_id]
           IN /\ orders[arg[p].order].status = "cancelled"
              /\ ( /\ pre[p].status \in ActiveStatus
                   /\ pre[p].transporter_id # NULL
                   /\ pre[p].assigned_to = pre[p].transporter_id )
                 => /\ c.assigned_to = NULL
                    /\ c.vehicle_id = NULL
                    /\ c.status = "inactive"
              /\ pre[p].status = "pending" => c.assigned_to = pre[p].assigned_to

\* C14: in every state a container has status active exactly when it is
\* assigned (assigned_to is not null), and inactive when it is unassigned.
C14_ActiveIffAssigned ==
    \A c \in ContainerIds :
        /\ containers[c].assigned_to # NULL => containers[c].status = "active"
        /\ containers[c].assigned_to = NULL => containers[c].status = "inactive"

\* a latitude within [-90, 90] and a longitude within [-180, 180]
InRange(pos) == pos[1] \in -90..90 /\ pos[2] \in -180..180

\* C15: an updateContainerLocation with a latitude outside [-90, 90] or a
\* longitude outside [-180, 180], which the store did not refuse, fails with
\* InvalidInput, leaves current_lat, current_lng and last_updated of the
\* container as they were, and sends no location_update broadcast.
C15_OutOfRangeRejected ==
    ( /\ loc.pc = "done" /\ loc.fn = "updateContainerLocation"
      /\ loc.container \in ContainerIds
      /\ ~InRange(loc.pos)
      /\ loc.result \notin StoreErrors
      /\ \A q \in Procs : pc[q] = "idle" )
    => /\ loc.result = "InvalidInput"
       /\ tracking[loc.container] = loc.before
       /\ emitted = loc.sent

\* C16: an updateContainerLocation that succeeds right after a successful
\* updateContainerLocation with the same container and position, no other call
\* in between, leaves the location columns of the container as the first call
\* left them.
C16_SameSampleIdempotent ==
    ( /\ loc.pc = "done" /\ loc.fn = "updateContainerLocation"
      /\ loc.result = "ok" /\ loc.repeats
      /\ \A q \in Procs : pc[q] = "idle" )
    => tracking[loc.container] = loc.before

\* C18: when a location report for a container that was assigned when the
\* report began completes, the current position of every order that held the
\* container equals the current position of the container.
C18_ReportMirroredToOrder ==
    [][( /\ loc.pc # "done" /\ loc'.pc = "done" /\ loc'.result = "ok"
         /\ loc'.fn \in {"updateContainerLocation", "TrackingMap.updateContainerLocation"}
         /\ loc'.holders # {} )
       => \A o \in loc'.holders : orderPos'[o] = tracking'[loc'.container].current]_vars

C19_TrailBounded ==
    /\ Len(locationHistory) <= TrailCapacity
    /\ Len(trackingHistory) <= TrailCapacity

\* the table and the row of each event of a sequence of events
Kinds(events) == {<<events[i][1], events[i][2]>> : i \in DOMAIN events}

\* C20: a hook that watches order o by its id while a takeOrder on o is about
\* to update the order eventually receives the order event of o and the
\* container event of the container of o, unless the store refuses a request
\* of that takeOrder.
C20_WatcherReceivesBoth ==
    \A o \in OrderIds, p \in Procs :
        ( /\ watch.mounted /\ watch.order = o
          /\ op[p] = "takeOrder" /\ pc[p] = "take_update" /\ arg[p].order = o )
        ~> ( \/ {<<"orders", o>>, <<"containers", orders[o].container_id>>}
                    \subseteq Kinds(received)
             \/ Done(p, "takeOrder") /\ result[p] \in StoreErrors )

\* C21: while the hook is subscribed to container c and has not cancelled,
\* every statement that changes the row of c sends the hook a container
\* event of c, whatever the other subscribers and components do.
C21_IndependentSubscriptions ==
    [][\A c \in ContainerIds :
          ( /\ watch.mounted /\ watch.container = c
            /\ watch' = watch
            /\ containers'[c] # containers[c] \/ tracking'[c] # tracking[c] )
          => \E i \in DOMAIN channel'.hook :
                /\ i > Len(channel.hook)
                /\ channel'.hook[i][1] = "containers"
                /\ channel'.hook[i][2] = c]_vars

C23_HistoryOfScopeOnly ==
    [][( /\ watch.container # NULL
         /\ loc' = loc
         /\ locationHistory' # locationHistory )
       => \A i \in DOMAIN locationHistory' :
             i > Len(locationHistory)
             => locationHistory'[i].container_id = watch.container]_vars

C25_CompleteOrderIsCompleted ==
    [][\A c \in ContainerIds :
          containers'[c].complete_order # containers[c].complete_order
          => /\ containers'[c].complete_order \in DOMAIN orders'
             /\ orders'[containers'[c].complete_order].status = "completed"
             /\ orders'[containers'[c].complete_order].container_id = c]_vars

\* the container of the order of the call of p is assigned to the
\* transporter of the order with the vehicle of the call
LeftAssigned(p) ==
    LET o == arg[p].order
        c == orders[o].container_id
    IN /\ containers[c].assigned_to = orders[o].transporter_id
       /\ containers[c].vehicle_id = arg[p].vehicle
       /\ containers[c].status = "active"

\* the container of the order of the call of p is released by that order
LeftUnassigned(p) ==
    LET o == arg[p].order
        c == orders[o].container_id
    IN /\ containers[c].assigned_to = NULL
       /\ containers[c].vehicle_id = NULL
       /\ containers[c].status = "inactive"
       /\ containers[c].complete_order = o

C27_LastBroadcastIsPersisted ==
    ( /\ batch.pc = "done"
      /\ left = MaxBatchCalls - 1
      /\ emitted = Cardinality(batch.applied) )
    => \A i \in batch.applied :
          lastSent[batch.updates[i][1]] = tracking[batch.updates[i][1]].current

C29_HistoryAppendOnly ==
    [][/\ Len(locationHistory) <= Len(locationHistory')
       /\ \A i \in DOMAIN locationHistory :
             locationHistory'[i] = locationHistory[i]]_vars

\* C30: the rows that useSupabaseData holds for a table other than
\* containers change only when its fetch of that table returns; an update
\* event of a container changes none of them, whatever their ids.
C30_RowsOfTheTableOnly ==
    [][(data.table # "containers" /\ data'.rows # data.rows)
       => (data.pc = "fetching" /\ data'.pc = "ready")]_vars

====
